---- MODULE Spec2Model ----
(***************************************************************************)
(* Model of the multi-strategy scraper (src/src/scraper.py): the three     *)
(* extraction stages, the per-URL cascade scrape_url and the batch         *)
(* scheduler scrape_urls.                                                  *)
(*                                                                         *)
(* Text is modelled by its runs: a text is a sequence of runs, each run a  *)
(* maximal block of whitespace or of non-whitespace characters with its    *)
(* length.  len(), str.strip(), str.split() and ' '.join() are computed on *)
(* the runs, so a length is the number of characters of the Python string. *)
(***************************************************************************)
EXTENDS Integers, Sequences, FiniteSets, TLC

(***************************************************************************)
(* Bounds of the model.                                                    *)
(***************************************************************************)
MaxUrls == 2
\* records in the batch a pipeline run consumes, and runs of the pipeline
MaxRecords == 2
MaxRuns == 2
\* the largest max_wait generate_video is called with
MaxWait == 30

(***************************************************************************)
(* Program constants.                                                      *)
(***************************************************************************)
\* `len(content) < 200` before each further selector of the dynamic stage
SelectorMinChars == 200
\* `len(content) < 200` in the validation of the dynamic stage
PlaywrightMinChars == 200
\* `len(content) >= 200` in the static stage
TrafilaturaMinChars == 200
\* `len(content) >= 200` in the fallback stage
BeautifulSoupMinChars == 200
\* `len(content) < 200` in run_pipeline
PipelineMinChars == 200
\* `content[:10000]` in run_pipeline
StorageLimit == 10000
\* `poll_interval = 10` in generate_video
PollInterval == 10

(***************************************************************************)
(* Text as runs.                                                           *)
(***************************************************************************)
W(n) == [ws |-> TRUE, n |-> n]
T(n) == [ws |-> FALSE, n |-> n]

RECURSIVE TextLen(_)
\* len(s)
TextLen(s) == IF s = <<>> THEN 0 ELSE Head(s).n + TextLen(Tail(s))

RECURSIVE LStrip(_)
LStrip(s) == IF s # <<>> /\ Head(s).ws THEN LStrip(Tail(s)) ELSE s

RECURSIVE RStrip(_)
RStrip(s) ==
    IF s # <<>> /\ s[Len(s)].ws THEN RStrip(SubSeq(s, 1, Len(s) - 1)) ELSE s

\* s.strip()
Strip(s) == RStrip(LStrip(s))

RECURSIVE Words(_, _)
\* s.split(): the maximal non-whitespace blocks of s, in order; acc is the
\* word being read (0 when between words)
Words(s, acc) ==
    IF s = <<>> THEN (IF acc > 0 THEN <<acc>> ELSE <<>>)
    ELSE IF Head(s).ws
         THEN (IF acc > 0 THEN <<acc>> ELSE <<>>) \o Words(Tail(s), 0)
         ELSE Words(Tail(s), acc + Head(s).n)

RECURSIVE JoinWords(_)
\* ' '.join(words)
JoinWords(ws) ==
    IF ws = <<>> THEN <<>>
    ELSE IF Len(ws) = 1 THEN <<T(ws[1])>>
    ELSE <<T(ws[1]), W(1)>> \o JoinWords(Tail(ws))

\* ' '.join(s.split())
Normalize(s) == JoinWords(Words(s, 0))

RECURSIVE JoinParagraphs(_)
\* '\n\n'.join(texts)
JoinParagraphs(texts) ==
    IF texts = <<>> THEN <<>>
    ELSE IF Len(texts) = 1 THEN texts[1]
    ELSE texts[1] \o <<W(2)>> \o JoinParagraphs(Tail(texts))

RECURSIVE StrippedNonEmpty(_)
\* [t.strip() for t in texts if t.strip()]
StrippedNonEmpty(texts) ==
    IF texts = <<>> THEN <<>>
    ELSE (IF Strip(Head(texts)) # <<>> THEN <<Strip(Head(texts))>> ELSE <<>>)
         \o StrippedNonEmpty(Tail(texts))

(***************************************************************************)
(* Result records: {"url", "title", "content", "status", "error"}.         *)
(***************************************************************************)
NoneTitle == "<None>"
NoError == [kind |-> "none", n |-> 0, msg |-> ""]
\* f"Content too short ({n} chars)"
TooShort(n) == [kind |-> "short", n |-> n, msg |-> ""]
\* f"Navigation failed: {str(e)}"
NavigationFailed(msg) == [kind |-> "nav", n |-> 0, msg |-> msg]
\* str(e)
ExceptionText(msg) == [kind |-> "exc", n |-> 0, msg |-> msg]

Statuses == {"success", "short_content", "failed"}

\* item = {"url": url, "title": None, "content": "", "status": "failed", "error": None}
NewItem(url) ==
    [url |-> url, title |-> NoneTitle, content |-> <<>>, status |-> "failed",
     error |-> NoError]

(***************************************************************************)
(* URLs are sequences of parts; `part in url` is the substring test on     *)
(* whole parts.                                                            *)
(***************************************************************************)
PlainUrl == <<"https://", "example.com", "/story">>
GoogleNewsUrl == <<"https://", "news.google.com", "/rss/articles/CBMi">>
PublisherUrl == <<"https://", "publisher.example", "/article">>
Urls == {PlainUrl, GoogleNewsUrl}

Contains(url, part) == \E k \in DOMAIN url : url[k] = part

\* where a fetch of / a navigation to url can end after its redirects
FinalUrls(url) == {url, PublisherUrl}

(***************************************************************************)
(* Texts served by the environment.                                        *)
(***************************************************************************)
Short50 == <<T(50)>>
Padded199 == <<W(2), T(199), W(3)>>
Spaced310 == <<T(100), W(150), T(60)>>
Mid250 == <<T(120), W(1), T(129)>>
Long450 == <<T(300), W(1), T(149)>>
Para500 == <<T(500)>>
Sparse500 == <<T(100), W(340), T(60)>>

(***************************************************************************)
(* Dynamic stage: what the rendered page answers to the selectors.         *)
(***************************************************************************)
Absent == [kind |-> "absent", text |-> <<>>]
Raises == [kind |-> "raise", text |-> <<>>]
Element(t) == [kind |-> "text", text |-> t]
ParagraphsRaise == [kind |-> "raise", list |-> <<>>]
Paragraphs(l) == [kind |-> "list", list |-> l]

\* what the four selectors can answer
Selections ==
    [article : {Absent, Raises, Element(Short50), Element(Long450)},
     main : {Absent, Raises, Element(Mid250)},
     paragraphs : {ParagraphsRaise, Paragraphs(<<>>),
                   Paragraphs(<<Short50, Padded199>>)},
     body : {Absent, Raises, Element(Spaced310)}]

Page(final, title, sel) ==
    [final |-> final, title |-> title, article |-> sel.article,
     main |-> sel.main, paragraphs |-> sel.paragraphs, body |-> sel.body]

\* a page whose article carries the story, and one with nothing but a stub
StoryPage == [article |-> Element(Long450), main |-> Absent,
              paragraphs |-> Paragraphs(<<>>), body |-> Absent]
StubPage == [article |-> Absent, main |-> Absent,
             paragraphs |-> Paragraphs(<<Short50>>), body |-> Absent]
\* a page with a teaser in its article element and the story in main
DigestPage == [article |-> Element(Mid250), main |-> Element(Long450),
               paragraphs |-> Paragraphs(<<>>), body |-> Absent]

\* a page with nothing but a body whose text has a long blank block
SpacedPage == [article |-> Absent, main |-> Absent,
               paragraphs |-> Paragraphs(<<>>), body |-> Element(Spaced310)]

\* a page whose article has a long blank block, with the story in main
BlankArticlePage == [article |-> Element(Spaced310), main |-> Element(Long450),
                     paragraphs |-> Paragraphs(<<>>), body |-> Absent]

\* Weak with the length taken after the clean up
WeakNormalized(content) ==
    content = <<>> \/ TextLen(Normalize(content)) < SelectorMinChars

\* `not content or len(content) < 200`
Weak(content) == content = <<>> \/ TextLen(content) < SelectorMinChars

\* Strategy 1: article tag
AfterArticle(page) ==
    IF page.article.kind = "text" THEN page.article.text ELSE <<>>

\* AfterMain with the main element preferred whenever the page has one
AfterMainAlways(page, content) ==
    IF page.main.kind = "text" THEN page.main.text ELSE content

\* Strategy 2: main tag
AfterMain(page, content) ==
    IF Weak(content) /\ page.main.kind = "text" THEN page.main.text ELSE content

\* Strategy 3: all paragraphs
AfterParagraphs(page, content) ==
    IF Weak(content) /\ page.paragraphs.kind = "list"
    THEN JoinParagraphs(StrippedNonEmpty(page.paragraphs.list))
    ELSE content

\* Strategy 4: body text
AfterBody(page, content) ==
    IF Weak(content) /\ page.body.kind = "text" THEN page.body.text ELSE content

SelectContent(page) ==
    AfterBody(page, AfterParagraphs(page, AfterMain(page, AfterArticle(page))))

\* PlaywrightExtracted with the selectors not guarded: an exception of one
\* of them reaches the handler of the navigation
PlaywrightExtractedSelectorsUnguarded(item, page) ==
    LET content == Normalize(SelectContent(page))
        short == TextLen(content) < PlaywrightMinChars
    IN IF "raise" \in {page.article.kind, page.main.kind, page.paragraphs.kind,
                       page.body.kind}
       THEN [item EXCEPT !.error = NavigationFailed("selector failed")]
       ELSE [url |-> page.final,
             title |-> IF page.title = "<raises>" THEN NoneTitle ELSE page.title,
             content |-> content,
             status |-> IF short THEN "short_content" ELSE "success",
             error |-> IF short THEN TooShort(TextLen(content)) ELSE item.error]

\* PlaywrightExtracted with the url left as it was given
PlaywrightExtractedKeepsUrl(item, page) ==
    LET content == Normalize(SelectContent(page))
        short == TextLen(content) < PlaywrightMinChars
    IN [url |-> item.url,
        title |-> IF page.title = "<raises>" THEN NoneTitle ELSE page.title,
        content |-> content,
        status |-> IF short THEN "short_content" ELSE "success",
        error |-> IF short THEN TooShort(TextLen(content)) ELSE item.error]

\* PlaywrightExtracted with the validation made before the clean up
PlaywrightExtractedRawGate(item, page) ==
    LET content == Normalize(SelectContent(page))
        short == TextLen(SelectContent(page)) < PlaywrightMinChars
    IN [url |-> page.final,
        title |-> IF page.title = "<raises>" THEN NoneTitle ELSE page.title,
        content |-> content,
        status |-> IF short THEN "short_content" ELSE "success",
        error |-> IF short THEN TooShort(TextLen(content)) ELSE item.error]

\* the try body of the dynamic stage after a navigation that did not raise
PlaywrightExtracted(item, page) ==
    LET content == Normalize(SelectContent(page))
        short == TextLen(content) < PlaywrightMinChars
    IN [url |-> page.final,
        title |-> IF page.title = "<raises>" THEN NoneTitle ELSE page.title,
        content |-> content,
        status |-> IF short THEN "short_content" ELSE "success",
        error |-> IF short THEN TooShort(TextLen(content)) ELSE item.error]

\* except Exception as e: item['error'] = f"Navigation failed: {str(e)}"
PlaywrightNavigationFailed(item, msg) ==
    [item EXCEPT !.error = NavigationFailed(msg)]

\* the outer except Exception as e: item['error'] = str(e)
PlaywrightFailed(item, msg) == [item EXCEPT !.error = ExceptionText(msg)]

(***************************************************************************)
(* Static stage.                                                           *)
(***************************************************************************)
FetchErrors == {"HTTPError 404", "ReadTimeout"}

\* what trafilatura.extract returns: None or a text
ExtractedNone == [none |-> TRUE, text |-> <<>>]
Extracted(t) == [none |-> FALSE, text |-> t]

\* response.url: where the fetch of url ended
FetchFinal(url, fetch) == IF fetch.redirected THEN PublisherUrl ELSE url

\* TrafilaturaResult with no error text on short content
TrafilaturaResultShortNoError(url, fetch) ==
    LET item == NewItem(url)
        content == fetch.extracted.text
    IN IF fetch.kind = "raise"
       THEN [item EXCEPT !.error = ExceptionText(fetch.msg)]
       ELSE IF ~fetch.extracted.none /\ content # <<>>
               /\ TextLen(content) >= TrafilaturaMinChars
       THEN [item EXCEPT !.status = "success", !.content = Strip(content),
                         !.title = fetch.title]
       ELSE [item EXCEPT !.status = "short_content"]

TrafilaturaResult(url, fetch) ==
    LET item == NewItem(url)
        content == fetch.extracted.text
    IN IF fetch.kind = "raise"
       THEN [item EXCEPT !.error = ExceptionText(fetch.msg)]
       ELSE IF ~fetch.extracted.none /\ content # <<>>
               /\ TextLen(content) >= TrafilaturaMinChars
       THEN [item EXCEPT !.status = "success", !.content = Strip(content),
                         !.title = fetch.title]
       ELSE [item EXCEPT !.status = "short_content",
                         !.error = TooShort(TextLen(content))]

(***************************************************************************)
(* Fallback stage.  A document is its h1 and title elements, the content   *)
(* containers it has, and its paragraphs, each with the tags it is inside. *)
(***************************************************************************)
Unwanted == {"script", "style", "nav", "footer", "header", "aside"}

Para(t, inside) == [text |-> t, inside |-> inside]

Document(h1, titleTag, tags, paras) ==
    [h1 |-> h1, titleTag |-> titleTag, tags |-> tags, paras |-> paras]

Documents ==
    {\* a fragment: no container, no paragraph, no title
     Document("<absent>", "<absent>", {}, <<>>),
     \* one long paragraph in the body
     Document("Heading", "Page title", {"body"}, <<Para(Para500, {"body"})>>),
     \* the long paragraph next to the article element, a stub inside it
     Document("<absent>", "Page title", {"body", "article"},
              <<Para(Short50, {"body", "article"}), Para(Para500, {"body"})>>),
     \* the long paragraph inside the footer
     Document("<absent>", "<absent>", {"body"},
              <<Para(Para500, {"body", "footer"})>>),
     \* two paragraphs in main, padded and spaced
     Document("<absent>", "Page title", {"body", "main"},
              <<Para(Padded199, {"body", "main"}),
                Para(Spaced310, {"body", "main"})>>)}

\* a page with one long paragraph in its body
PlainDocument ==
    Document("Heading", "Page title", {"body"}, <<Para(Para500, {"body"})>>)

\* a page with one paragraph of 500 characters, most of them blank
SparseDocument ==
    Document("Heading", "Page title", {"body"}, <<Para(Sparse500, {"body"})>>)

\* for tag in soup([...]): tag.decompose()
Decompose(paras) == SelectSeq(paras, LAMBDA p : p.inside \cap Unwanted = {})

\* soup.find('article') or soup.find('main') or soup.find('body')
ContentRoot(doc) ==
    IF "article" \in doc.tags THEN "article"
    ELSE IF "main" \in doc.tags THEN "main"
    ELSE IF "body" \in doc.tags THEN "body"
    ELSE "<none>"

\* RootParagraphs looking for the article element only
RootParagraphsOfArticle(doc) ==
    SelectSeq(Decompose(doc.paras), LAMBDA p : "article" \in p.inside)

\* article.find_all('p') if article else soup.find_all('p')
RootParagraphs(doc) ==
    LET root == ContentRoot(doc)
        left == Decompose(doc.paras)
    IN IF root = "<none>" THEN left
       ELSE SelectSeq(left, LAMBDA p : root \in p.inside)

RECURSIVE ParaTexts(_)
ParaTexts(paras) ==
    IF paras = <<>> THEN <<>> ELSE <<Head(paras).text>> \o ParaTexts(Tail(paras))

BeautifulSoupTitle(doc) ==
    IF doc.h1 # "<absent>" THEN doc.h1
    ELSE IF doc.titleTag # "<absent>" THEN doc.titleTag
    ELSE "No title"

\* BeautifulSoupResult with title and content kept only on success
BeautifulSoupResultSuccessOnly(url, fetch) ==
    LET item == NewItem(url)
        content ==
            Normalize(JoinParagraphs(StrippedNonEmpty(ParaTexts(RootParagraphs(fetch.doc)))))
    IN IF fetch.kind = "raise"
       THEN [item EXCEPT !.error = ExceptionText(fetch.msg)]
       ELSE IF TextLen(content) >= BeautifulSoupMinChars
       THEN [item EXCEPT !.status = "success",
                         !.title = BeautifulSoupTitle(fetch.doc),
                         !.content = content]
       ELSE [item EXCEPT !.status = "short_content",
                         !.error = TooShort(TextLen(content))]

BeautifulSoupResult(url, fetch) ==
    LET item == NewItem(url)
        content ==
            Normalize(JoinParagraphs(StrippedNonEmpty(ParaTexts(RootParagraphs(fetch.doc)))))
    IN IF fetch.kind = "raise"
       THEN [item EXCEPT !.error = ExceptionText(fetch.msg)]
       ELSE IF TextLen(content) >= BeautifulSoupMinChars
       THEN [item EXCEPT !.status = "success",
                         !.title = BeautifulSoupTitle(fetch.doc),
                         !.content = content]
       ELSE [item EXCEPT !.status = "short_content",
                         !.error = TooShort(TextLen(content)),
                         !.title = BeautifulSoupTitle(fetch.doc),
                         !.content = content]

(***************************************************************************)
(* State.                                                                  *)
(***************************************************************************)
VARIABLES
    urls,                  \* the argument of scrape_urls
    use_playwright,        \* the argument of scrape_urls
    PLAYWRIGHT_AVAILABLE,  \* set by the import at module load
    TRAFILATURA_AVAILABLE, \* set by the import at module load
    mode,                  \* where scrape_urls is
    results,               \* the list the sequential loop appends to
    returned,              \* what scrape_urls returned
    pc,                    \* where each scrape_url call is
    arg,                   \* the arguments of each scrape_url call
    item,                  \* `item` of the running dynamic stage
    result,                \* `result` of each scrape_url call
    ret,                   \* what each scrape_url call returned
    held,                  \* renderer resources acquired and not released
    log,                   \* per call, the stage calls made and their returns
    completed,             \* the calls in the order they finished
    tracing,               \* how much of what the stages did is observed
    seen,                  \* per call, what its last navigation or fetch met
    failure,               \* the last failure of the dynamic stage in the batch
    ppc,                   \* where run_pipeline is
    runs,                  \* the runs of run_pipeline started so far
    scrape_results,        \* what scrape_urls returned to run_pipeline
    idx,                   \* `idx` of the loop of run_pipeline
    session,               \* the Articles added to the session in this run
    processed_count,       \* `processed_count` of run_pipeline
    reported,              \* the count run_pipeline printed as processed
    articles,              \* the rows of the table `articles`
    vpc,                   \* where generate_video is
    max_wait,              \* the argument of generate_video
    elapsed,               \* `elapsed` of generate_video
    reports,               \* what the status polls answered, in order
    outcome                \* what generate_video returned or raised

\* the state of the scraper and the state of the pipeline
scraper ==
    <<urls, use_playwright, PLAYWRIGHT_AVAILABLE, TRAFILATURA_AVAILABLE, mode,
      results, returned, pc, arg, item, result, ret, held, log, completed,
      tracing, seen, failure>>

pipeline ==
    <<ppc, runs, scrape_results, idx, session, processed_count, reported,
      articles>>

video == <<vpc, max_wait, elapsed, reports, outcome>>

vars == <<scraper, pipeline, video>>

Tasks == DOMAIN urls

RECURSIVE SeqsUpTo(_, _)
\* the sequences over S of length at most n
SeqsUpTo(S, n) ==
    IF n = 0 THEN {<<>>}
    ELSE LET shorter == SeqsUpTo(S, n - 1)
         IN shorter \cup {Append(q, x) : q \in shorter, x \in S}

NoCall == [url |-> <<>>, use_playwright |-> FALSE]
NoItem == NewItem(<<>>)
NotSeen == [stage |-> "", raised |-> FALSE, src |-> <<>>]
NotReported == -1
NoVideo ==
    [id |-> "", status |-> "", result_url |-> "", video_url |-> "",
     duration |-> 0, provider |-> ""]
NoOutcome == [kind |-> "", error |-> "", value |-> NoVideo]

\* what a stage met, kept when the stages are observed: the page or the
\* response src, or the exception raised in its place
Seen(stage, raised, src) ==
    IF tracing \in {"records", "inputs"}
    THEN [stage |-> stage, raised |-> raised, src |-> src]
    ELSE NotSeen

\* a call of the dynamic stage that ended without success, and why:
\* "engine" (the renderer did not start), "timeout" (the navigation timed
\* out), "navigation" (it raised something else) or "other"; kept when the
\* causes are observed
NoFailure == [task |-> 0, why |-> ""]
Failure(i, why) ==
    IF tracing = "causes" THEN [task |-> i, why |-> why] ELSE NoFailure

\* the pages a navigation to url can end on: the four pages above, the story
\* and the stub also after a redirect or with a title that cannot be read;
\* and, when the records of the stages are observed, every answer of the
\* selectors
Pages(url) ==
    {Page(url, "Headline", sel) :
       sel \in {StoryPage, StubPage, DigestPage, SpacedPage}}
    \cup {Page(final, "Headline", sel) :
            final \in FinalUrls(url), sel \in {StoryPage, StubPage}}
    \cup {Page(url, "<raises>", sel) : sel \in {StoryPage, StubPage}}
    \cup (IF tracing = "records"
          THEN {Page(url, "Headline", sel) :
                  sel \in Selections \cup {BlankArticlePage}}
          ELSE {})

\* requests.get raised, or returned a response: redirected tells whether it
\* followed a redirect to another url (allow_redirects=True); a text with a
\* long blank block is extracted when the records of the stages are observed
TrafilaturaFetches ==
    [kind : {"raise"}, msg : FetchErrors, extracted : {ExtractedNone},
     title : {NoneTitle}, redirected : {FALSE}]
    \cup
    [kind : {"ok"}, msg : {""},
     extracted : {ExtractedNone, Extracted(<<>>), Extracted(Short50),
                  Extracted(Mid250)},
     title : {"Meta title"}, redirected : {FALSE}]
    \cup
    [kind : {"ok"}, msg : {""}, extracted : {Extracted(Padded199)},
     title : {NoneTitle}, redirected : {FALSE}]
    \cup
    [kind : {"ok"}, msg : {""}, extracted : {Extracted(Short50), Extracted(Mid250)},
     title : {"Meta title"}, redirected : {TRUE}]
    \cup
    (IF tracing = "records"
     THEN [kind : {"ok"}, msg : {""}, extracted : {Extracted(Spaced310)},
           title : {"Meta title"}, redirected : {FALSE}]
     ELSE {})

\* requests.get raised, or returned a response with a document: redirected
\* tells whether it followed a redirect to another url; the sparse document
\* is served when the records of the stages are observed
BeautifulSoupFetches ==
    [kind : {"raise"}, msg : FetchErrors, doc : {PlainDocument},
     redirected : {FALSE}]
    \cup [kind : {"ok"}, msg : {""}, doc : Documents, redirected : {FALSE}]
    \cup [kind : {"ok"}, msg : {""}, doc : {PlainDocument}, redirected : {TRUE}]
    \cup (IF tracing = "records"
          THEN [kind : {"ok"}, msg : {""}, doc : {SparseDocument},
                redirected : {FALSE}]
          ELSE {})

Calling ==
    /\ urls \in SeqsUpTo(Urls, MaxUrls)
    /\ use_playwright \in BOOLEAN
    /\ PLAYWRIGHT_AVAILABLE \in BOOLEAN
    /\ TRAFILATURA_AVAILABLE \in BOOLEAN
    /\ mode = "called"
    /\ results = <<>>
    /\ returned = <<>>
    /\ pc = [i \in Tasks |-> "idle"]
    /\ arg = [i \in Tasks |-> NoCall]
    /\ item = [i \in Tasks |-> NoItem]
    /\ result = [i \in Tasks |-> NoItem]
    /\ ret = [i \in Tasks |-> NoItem]
    /\ held = [i \in Tasks |-> {}]
    /\ log = [i \in Tasks |-> <<>>]
    /\ completed = <<>>
    /\ seen = [i \in Tasks |-> NotSeen]
    /\ failure = NoFailure
    /\ ppc = "idle"
    /\ runs = 0
    /\ scrape_results = <<>>
    /\ idx = 0
    /\ session = <<>>
    /\ processed_count = 0
    /\ reported = NotReported
    /\ articles = {}
    /\ vpc = "idle"
    /\ max_wait = 0
    /\ elapsed = 0
    /\ reports = <<>>
    /\ outcome = NoOutcome

\* a batch of at most MaxUrls urls; of a stage only its success is observed
Init ==
    /\ Calling
    /\ tracing = "off"

\* if use_playwright and PLAYWRIGHT_AVAILABLE
Sequential == use_playwright /\ PLAYWRIGHT_AVAILABLE

\* a batch in the dynamic mode, with the cause of every failure of the dynamic
\* stage observed
LoopInit ==
    /\ Calling
    /\ Sequential
    /\ tracing = "causes"

\* a batch of one url, with the record of every stage observed
TraceInit ==
    /\ Calling
    /\ Len(urls) = 1
    /\ tracing = "records"

\* a batch of two urls in the concurrent mode, with the record of every stage
\* observed
GatherInit ==
    /\ Calling
    /\ Len(urls) = 2
    /\ ~Sequential
    /\ tracing = "records"

\* scrape_urls called with the same url twice, with what every stage met
\* observed
ReplayInit ==
    /\ Calling
    /\ Len(urls) = 2
    /\ urls[1] = urls[2]
    /\ tracing = "inputs"

\* the entries of log: a stage was called; it returned record r, with success
\* or not; on success gate is the length its validation compared; rec is r
\* when the records are observed
Started(stage) ==
    [stage |-> stage, ev |-> "start", ok |-> FALSE, gate |-> 0, rec |-> NoItem]
Ended(stage, r, gate) ==
    [stage |-> stage, ev |-> "end", ok |-> r.status = "success",
     gate |-> IF r.status = "success" THEN gate ELSE 0,
     rec |-> IF tracing = "records" THEN r ELSE NoItem]

(***************************************************************************)
(* scrape_url: the decisions of the cascade.                               *)
(***************************************************************************)
\* UsePlaywright without the test of the argument
UsePlaywrightWhenAvailable(call) == PLAYWRIGHT_AVAILABLE

\* UsePlaywright with the stage switched off once the renderer did not start
UsePlaywrightUntilEngineFails(call) ==
    PLAYWRIGHT_AVAILABLE /\ call.use_playwright /\ failure.why # "engine"

\* if PLAYWRIGHT_AVAILABLE and use_playwright
UsePlaywright(call) == PLAYWRIGHT_AVAILABLE /\ call.use_playwright

\* UseTrafilatura without the test of the url
UseTrafilaturaWhenAvailable(call) == TRAFILATURA_AVAILABLE

\* if TRAFILATURA_AVAILABLE and not ('news.google.com' in url)
UseTrafilatura(call) ==
    TRAFILATURA_AVAILABLE /\ ~Contains(call.url, "news.google.com")

\* AfterPlaywright without the return on success
AfterPlaywrightNoReturn(r) == "trafilatura"

\* AfterPlaywright returning whatever the dynamic stage gave
AfterPlaywrightReturnsAny(r) == "return"

\* if result['status'] == 'success': return result   (after the dynamic stage)
AfterPlaywright(r) == IF r.status = "success" THEN "return" ELSE "trafilatura"

\* AfterTrafilatura returning whatever the static stage gave
AfterTrafilaturaReturnsAny(r) == "return"

\* AfterTrafilatura starting the cascade again when the static stage fell short
AfterTrafilaturaRestart(r) == IF r.status = "success" THEN "return" ELSE "start"

\* AfterTrafilatura trying the static stage again when it fell short
AfterTrafilaturaRetry(r) == IF r.status = "success" THEN "return" ELSE "trafilatura"

\* if result['status'] == 'success': return result   (after the static stage)
AfterTrafilatura(r) == IF r.status = "success" THEN "return" ELSE "beautifulsoup"

\* ScrapeUrlExcept logging the exception and raising it again
ScrapeUrlExceptReraise(url, msg) == [raised |-> TRUE, value |-> NewItem(url)]

\* except Exception as e: item["error"] = str(e); return item
ScrapeUrlExcept(url, msg) ==
    [raised |-> FALSE, value |-> [NewItem(url) EXCEPT !.error = ExceptionText(msg)]]

\* what loop.run_in_executor does with the call it is given
ExecutorOutcomes == {"submitted", "RuntimeError"}

\* the call is over: it returned out.value, or raised.  In the sequential
\* loop the awaiting scrape_urls runs on in the same step: it appends the value
\* and, after the last url, returns the list; an exception ends it.
Finish(i, out) ==
    /\ pc' = [pc EXCEPT ![i] = IF out.raised THEN "raised" ELSE "done"]
    /\ ret' = [ret EXCEPT ![i] = out.value]
    /\ completed' = Append(completed, i)
    /\ IF mode # "loop" THEN UNCHANGED <<mode, results, returned>>
       ELSE IF out.raised
       THEN /\ mode' = "raised"
            /\ UNCHANGED <<results, returned>>
       ELSE /\ results' = Append(results, out.value)
            /\ IF Len(results') = Len(urls)
               THEN /\ mode' = "done"
                    /\ returned' = results'
               ELSE UNCHANGED <<mode, returned>>

\* the call goes on
Continue == UNCHANGED <<mode, results, returned, ret, completed>>

\* Return with one record shared by the calls: the call returns what the
\* call that finished last left in it
ReturnShared(i, value) ==
    Finish(i, [raised |-> FALSE,
               value |-> IF completed = <<>> THEN value
                         ELSE ret[completed[Len(completed)]]])

\* return result
Return(i, value) == Finish(i, [raised |-> FALSE, value |-> value])

\* an exception reaches the handler of scrape_url, which returns its own item
Handle(i, msg) ==
    /\ Finish(i, ScrapeUrlExcept(arg[i].url, msg))
    /\ result' = [result EXCEPT ![i] = NoItem]

\* the stage the call comes to at label: the static stage unless it is skipped
StageAt(i, label) ==
    IF label = "trafilatura" /\ UseTrafilatura(arg[i]) THEN "trafilatura"
    ELSE "beautifulsoup"

\* the call, its log being lg, goes on at label without being suspended: it
\* hands the stage it comes to to the executor and awaits it, or the executor
\* raises and the handler of scrape_url returns; result is not read again
\* before the stage assigns it
Goto(i, label, lg) ==
    IF label = "start"
    THEN /\ pc' = [pc EXCEPT ![i] = "start"]
         /\ log' = [log EXCEPT ![i] = lg]
         /\ result' = [result EXCEPT ![i] = NoItem]
         /\ Continue
    ELSE \E o \in ExecutorOutcomes :
           IF o = "submitted"
           THEN /\ pc' = [pc EXCEPT ![i] =
                          IF StageAt(i, label) = "trafilatura" THEN "tr_run"
                          ELSE "bs_run"]
                /\ log' = [log EXCEPT ![i] = Append(lg, Started(StageAt(i, label)))]
                /\ result' = [result EXCEPT ![i] = NoItem]
                /\ Continue
           ELSE /\ log' = [log EXCEPT ![i] = lg]
                /\ Handle(i, o)

(***************************************************************************)
(* _scrape_with_playwright.                                                *)
(***************************************************************************)
\* the driver started without the context manager: nothing stops it
PlaywrightExitNoStop(h) == h

\* leaving `async with async_playwright()`: the driver stops and takes the
\* browser with its contexts and pages down
PlaywrightExit(h) == {}

\* page.close() / context.close() / browser.close()
ClosePage(h) == h \ {"page"}
CloseContext(h) == h \ {"context", "page"}
CloseBrowser(h) == h \ {"browser", "context", "page"}

Fixed ==
    <<urls, use_playwright, PLAYWRIGHT_AVAILABLE, TRAFILATURA_AVAILABLE, arg,
      tracing, pipeline, video>>

\* the stage goes on
PwStep(i, next) ==
    /\ pc' = [pc EXCEPT ![i] = next]
    /\ UNCHANGED <<log, result, failure>>
    /\ Continue

\* return item: scrape_url returns it on success and goes on to the next stage
\* otherwise
PwReturns(i, r, why) ==
    /\ item' = [item EXCEPT ![i] = NoItem]
    /\ failure' = IF r.status = "success" THEN failure ELSE Failure(i, why)
    /\ LET lg == Append(log[i], Ended("playwright", r, TextLen(r.content)))
       IN IF AfterPlaywright(r) = "return"
          THEN /\ log' = [log EXCEPT ![i] = lg]
               /\ result' = [result EXCEPT ![i] = r]
               /\ Return(i, r)
          ELSE Goto(i, AfterPlaywright(r), lg)

\* an exception leaves the async with block and reaches the outer handler
PwUnwind(i, msg, why) ==
    /\ held' = [held EXCEPT ![i] = PlaywrightExit(@)]
    /\ PwReturns(i, PlaywrightFailed(item[i], msg), why)
    /\ UNCHANGED seen

\* scrape_url is entered; the dynamic stage is called, or skipped and the
\* call comes to the static stage
ScrapeUrl(i) ==
    /\ pc[i] = "start"
    /\ IF UsePlaywright(arg[i])
       THEN /\ pc' = [pc EXCEPT ![i] = "pw_enter"]
            /\ item' = [item EXCEPT ![i] = NewItem(arg[i].url)]
            /\ log' = [log EXCEPT ![i] = Append(@, Started("playwright"))]
            /\ UNCHANGED result
            /\ Continue
       ELSE /\ Goto(i, "trafilatura", log[i])
            /\ UNCHANGED item
    /\ UNCHANGED <<held, seen, failure>>
    /\ UNCHANGED Fixed

\* async with async_playwright() as p
PwEnter(i) ==
    /\ pc[i] = "pw_enter"
    /\ \/ /\ held' = [held EXCEPT ![i] = @ \cup {"driver"}]
          /\ PwStep(i, "pw_launch")
          /\ UNCHANGED <<item, seen>>
       \/ /\ PwReturns(i, PlaywrightFailed(item[i], "driver did not start"),
                       "engine")
          /\ UNCHANGED <<held, seen>>
    /\ UNCHANGED Fixed

\* browser = await p.chromium.launch(...)
PwLaunch(i) ==
    /\ pc[i] = "pw_launch"
    /\ \/ /\ held' = [held EXCEPT ![i] = @ \cup {"browser"}]
          /\ PwStep(i, "pw_context")
          /\ UNCHANGED <<item, seen>>
       \/ PwUnwind(i, "browser did not launch", "engine")
    /\ UNCHANGED Fixed

\* context = await browser.new_context(...)
PwNewContext(i) ==
    /\ pc[i] = "pw_context"
    /\ \/ /\ held' = [held EXCEPT ![i] = @ \cup {"context"}]
          /\ PwStep(i, "pw_page")
          /\ UNCHANGED <<item, seen>>
       \/ PwUnwind(i, "new_context failed", "other")
    /\ UNCHANGED Fixed

\* page = await context.new_page()
PwNewPage(i) ==
    /\ pc[i] = "pw_page"
    /\ \/ /\ held' = [held EXCEPT ![i] = @ \cup {"page"}]
          /\ PwStep(i, "pw_goto")
          /\ UNCHANGED <<item, seen>>
       \/ PwUnwind(i, "new_page failed", "other")
    /\ UNCHANGED Fixed

NavigationTimeout == "Timeout 30000ms exceeded"
NavigationErrors == {NavigationTimeout, "net::ERR_NAME_NOT_RESOLVED"}

\* why the dynamic stage, having come to its finally block with item, fell short
WhyNot(it) ==
    IF it.error.kind # "nav" THEN "other"
    ELSE IF it.error.msg = NavigationTimeout THEN "timeout"
    ELSE "navigation"

\* the inner try: goto, the selectors, the validation; or its except
PwNavigate(i) ==
    /\ pc[i] = "pw_goto"
    /\ \/ \E page \in Pages(arg[i].url) :
             /\ item' = [item EXCEPT ![i] = PlaywrightExtracted(@, page)]
             /\ seen' = [seen EXCEPT ![i] = Seen("playwright", FALSE, page)]
       \/ \E msg \in NavigationErrors :
             /\ item' = [item EXCEPT ![i] = PlaywrightNavigationFailed(@, msg)]
             /\ seen' = [seen EXCEPT ![i] = Seen("playwright", TRUE, msg)]
    /\ PwStep(i, "pw_finally")
    /\ UNCHANGED held
    /\ UNCHANGED Fixed

\* how the finally block can end: every close returned, or one of them raised
\* (the closes after it are then not run)
CloseOutcomes == {"closed", "page", "context", "browser"}

\* what the finally block has released when it ends in outcome o
AfterCloses(h, o) ==
    IF o = "page" THEN h
    ELSE IF o = "context" THEN ClosePage(h)
    ELSE IF o = "browser" THEN CloseContext(ClosePage(h))
    ELSE CloseBrowser(CloseContext(ClosePage(h)))

\* finally: await page.close(); await context.close(); await browser.close();
\* the async with block is left, with or without an exception; return item
PwFinally(i) ==
    /\ pc[i] = "pw_finally"
    /\ \E o \in CloseOutcomes :
         /\ held' = [held EXCEPT ![i] = PlaywrightExit(AfterCloses(@, o))]
         /\ PwReturns(i, IF o = "closed" THEN item[i]
                         ELSE PlaywrightFailed(item[i], "close failed"),
                      WhyNot(item[i]))
    /\ UNCHANGED seen
    /\ UNCHANGED Fixed

(***************************************************************************)
(* The static and the fallback stage, each run in the executor.            *)
(***************************************************************************)
\* _scrape_with_trafilatura has run in its thread and the await returns:
\* scrape_url returns its record on success and comes to the fallback stage
\* otherwise
TrafilaturaReturn(i) ==
    /\ pc[i] = "tr_run"
    /\ \E fetch \in TrafilaturaFetches :
         LET r == TrafilaturaResult(arg[i].url, fetch)
             lg == Append(log[i], Ended("trafilatura", r,
                                        TextLen(fetch.extracted.text)))
         IN /\ seen' = [seen EXCEPT ![i] =
                          Seen("trafilatura", fetch.kind = "raise", fetch)]
            /\ IF AfterTrafilatura(r) = "return"
               THEN /\ log' = [log EXCEPT ![i] = lg]
                    /\ result' = [result EXCEPT ![i] = r]
                    /\ Return(i, r)
               ELSE Goto(i, AfterTrafilatura(r), lg)
    /\ UNCHANGED <<item, held, failure>>
    /\ UNCHANGED Fixed

\* _scrape_with_beautifulsoup has run in its thread; return result
BeautifulSoupReturn(i) ==
    /\ pc[i] = "bs_run"
    /\ \E fetch \in BeautifulSoupFetches :
         LET r == BeautifulSoupResult(arg[i].url, fetch)
         IN /\ log' = [log EXCEPT ![i] =
                        Append(@, Ended("beautifulsoup", r, TextLen(r.content)))]
            /\ seen' = [seen EXCEPT ![i] =
                          Seen("beautifulsoup", fetch.kind = "raise", fetch)]
            /\ result' = [result EXCEPT ![i] = r]
            /\ Return(i, r)
    /\ UNCHANGED <<item, held, failure>>
    /\ UNCHANGED Fixed

(***************************************************************************)
(* scrape_urls.                                                            *)
(***************************************************************************)
\* the call started as a task and never awaited
AwaitedNever(j) == TRUE

\* result = await scrape_url(...): the loop is suspended until call j is over
Awaited(j) == pc[j] \in {"done", "raised"}

\* the values in the order the tasks finished
GatheredAsCompleted == [k \in Tasks |-> ret[completed[k]]]

\* await asyncio.gather(*tasks): the values in the order of the tasks
Gathered == [i \in Tasks |-> ret[i]]

TaskFrame ==
    <<item, result, ret, held, log, completed, seen, failure, pipeline,
      video>>

\* scrape_urls is called: it enters the loop (and leaves it at once when
\* there is no url), or creates one task per url
ScrapeUrls ==
    /\ mode = "called"
    /\ IF Sequential
       THEN /\ mode' = IF urls = <<>> THEN "done" ELSE "loop"
            /\ UNCHANGED <<pc, arg>>
       ELSE /\ mode' = "gather"
            /\ pc' = [i \in Tasks |-> "start"]
            /\ arg' = [i \in Tasks |-> [url |-> urls[i], use_playwright |-> FALSE]]
    /\ UNCHANGED <<urls, use_playwright, PLAYWRIGHT_AVAILABLE,
                   TRAFILATURA_AVAILABLE, tracing, results, returned>>
    /\ UNCHANGED TaskFrame

\* for url in urls: the loop calls scrape_url(url, use_playwright=True) for
\* the next url once every earlier call was awaited
LoopCall ==
    /\ mode = "loop"
    /\ \E k \in Tasks :
         /\ pc[k] = "idle"
         /\ \A j \in 1..(k - 1) : pc[j] # "idle" /\ Awaited(j)
         /\ pc' = [pc EXCEPT ![k] = "start"]
         /\ arg' = [arg EXCEPT ![k] = [url |-> urls[k], use_playwright |-> TRUE]]
    /\ UNCHANGED <<urls, use_playwright, PLAYWRIGHT_AVAILABLE,
                   TRAFILATURA_AVAILABLE, tracing, mode, results, returned>>
    /\ UNCHANGED TaskFrame

\* return await asyncio.gather(*tasks)
GatherReturn ==
    /\ mode = "gather"
    /\ \A i \in Tasks : pc[i] \in {"done", "raised"}
    /\ IF \E i \in Tasks : pc[i] = "raised"
       THEN /\ mode' = "raised"
            /\ UNCHANGED returned
       ELSE /\ mode' = "done"
            /\ returned' = Gathered
    /\ UNCHANGED <<urls, use_playwright, PLAYWRIGHT_AVAILABLE,
                   TRAFILATURA_AVAILABLE, tracing, results, pc, arg>>
    /\ UNCHANGED TaskFrame

Next ==
    \/ ScrapeUrls
    \/ LoopCall
    \/ GatherReturn
    \/ \E i \in Tasks : ScrapeUrl(i)
    \/ \E i \in Tasks : PwEnter(i)
    \/ \E i \in Tasks : PwLaunch(i)
    \/ \E i \in Tasks : PwNewContext(i)
    \/ \E i \in Tasks : PwNewPage(i)
    \/ \E i \in Tasks : PwNavigate(i)
    \/ \E i \in Tasks : PwFinally(i)
    \/ \E i \in Tasks : TrafilaturaReturn(i)
    \/ \E i \in Tasks : BeautifulSoupReturn(i)

Spec == Init /\ [][Next]_vars

\* the sequential loop of scrape_urls: the batches of the dynamic mode
LoopNext ==
    \/ ScrapeUrls
    \/ LoopCall
    \/ \E i \in Tasks : ScrapeUrl(i)
    \/ \E i \in Tasks : PwEnter(i)
    \/ \E i \in Tasks : PwLaunch(i)
    \/ \E i \in Tasks : PwNewContext(i)
    \/ \E i \in Tasks : PwNewPage(i)
    \/ \E i \in Tasks : PwNavigate(i)
    \/ \E i \in Tasks : PwFinally(i)
    \/ \E i \in Tasks : TrafilaturaReturn(i)
    \/ \E i \in Tasks : BeautifulSoupReturn(i)

LoopSpec == LoopInit /\ [][LoopNext]_vars

\* the tasks of scrape_urls: the batches of the concurrent mode
GatherNext ==
    \/ ScrapeUrls
    \/ GatherReturn
    \/ \E i \in Tasks : ScrapeUrl(i)
    \/ \E i \in Tasks : TrafilaturaReturn(i)
    \/ \E i \in Tasks : BeautifulSoupReturn(i)

GatherSpec == GatherInit /\ [][GatherNext]_vars

\* two runs of scrape_url on one url
ReplaySpec == ReplayInit /\ [][Next]_vars

\* one call of scrape_url with the records of its stages observed
TraceSpec == TraceInit /\ [][Next]_vars

(***************************************************************************)
(* run_pipeline (src/src/run_pipeline.py) and the table `articles`         *)
(* (src/src/models.py).                                                    *)
(***************************************************************************)
RECURSIVE Take(_, _)
\* s[:n]
Take(s, n) ==
    IF s = <<>> \/ n <= 0 THEN <<>>
    ELSE IF Head(s).n <= n THEN <<Head(s)>> \o Take(Tail(s), n - Head(s).n)
    ELSE <<[ws |-> Head(s).ws, n |-> n]>>

\* a page whose article is longer than what the table keeps
LongReadPage == [article |-> Element(<<T(12000)>>), main |-> Absent,
                 paragraphs |-> Paragraphs(<<>>), body |-> Absent]

\* records scrape_urls returns to the pipeline
ScrapeRecords ==
    {\* the dynamic stage, after a redirect to the publisher
     PlaywrightExtracted(NewItem(GoogleNewsUrl),
                         Page(PublisherUrl, "Headline", StoryPage)),
     PlaywrightExtracted(NewItem(GoogleNewsUrl),
                         Page(PublisherUrl, "Headline", LongReadPage)),
     \* the dynamic stage with a stub: short_content
     PlaywrightExtracted(NewItem(PlainUrl), Page(PlainUrl, "Headline", StubPage)),
     \* the static stage: success with 199 characters and no title
     TrafilaturaResult(PlainUrl,
                       [kind |-> "ok", msg |-> "", extracted |-> Extracted(Padded199),
                        title |-> NoneTitle, redirected |-> FALSE]),
     \* the fallback stage: success
     BeautifulSoupResult(PlainUrl, [kind |-> "ok", msg |-> "", doc |-> PlainDocument,
                                    redirected |-> FALSE]),
     \* the handler of scrape_url: failed
     ScrapeUrlExcept(PlainUrl, "RuntimeError").value}

\* Discarded looking at the status only
DiscardedByStatusOnly(rec) == rec.status # "success"

\* if status != 'success' or not content or len(content) < 200: continue
Discarded(rec) ==
    \/ rec.status # "success"
    \/ rec.content = <<>>
    \/ TextLen(rec.content) < PipelineMinChars

\* title = scrape_result.get('title'); if not title: the GNews title
ArticleTitle(rec) ==
    IF rec.title \in {NoneTitle, ""} THEN "GNews title" ELSE rec.title

\* Article(title=title, url=final_url, content=content[:10000], ...)
NewArticle(rec) ==
    [title |-> ArticleTitle(rec), url |-> rec.url,
     content |-> Take(rec.content, StorageLimit), summary |-> "summary",
     script |-> "script", status |-> "ready"]

\* the Articles of the session
Added(sess) == {sess[k].article : k \in DOMAIN sess}

\* Conflict with no unique constraint on the table
ConflictNever(sess, rows) == FALSE

\* url = Column(String(1024), unique=True): the rows to insert break the
\* constraint among themselves or with a row of the table
Conflict(sess, rows) ==
    \/ \E k, m \in DOMAIN sess : k # m /\ sess[k].article.url = sess[m].article.url
    \/ \E k \in DOMAIN sess : \E row \in rows : sess[k].article.url = row.url

\* except Exception as e: print(...); logger.error(...)
CommitExcept(msg) == [raised |-> FALSE]

\* run_pipeline is called: the search raises or finds nothing and it returns,
\* or scrape_urls returns one record per url and the session is opened
RunPipeline ==
    /\ ppc = "idle"
    /\ runs < MaxRuns
    /\ runs' = runs + 1
    /\ \/ /\ ppc' = "idle"
          /\ scrape_results' = <<>>
       \/ /\ ppc' = "loop"
          /\ scrape_results' \in SeqsUpTo(ScrapeRecords, MaxRecords)
    /\ idx' = 0
    /\ session' = <<>>
    /\ processed_count' = 0
    /\ reported' = NotReported
    /\ UNCHANGED articles
    /\ UNCHANGED <<scraper, video>>

\* for idx, scrape_result in enumerate(scrape_results, 1): the record is
\* skipped, or summarize_article is awaited
PipelineRecord ==
    /\ ppc = "loop"
    /\ idx < Len(scrape_results)
    /\ idx' = idx + 1
    /\ ppc' = IF Discarded(scrape_results[idx + 1]) THEN "loop" ELSE "summarize"
    /\ UNCHANGED <<runs, scrape_results, session, processed_count, reported,
                   articles>>
    /\ UNCHANGED <<scraper, video>>

\* summary = await summarize_article(content): it returns and generate_script
\* is awaited, or it raises and the loop continues with the next record
Summarized ==
    /\ ppc = "summarize"
    /\ ppc' \in {"script", "loop"}
    /\ UNCHANGED <<runs, scrape_results, idx, session, processed_count,
                   reported, articles>>
    /\ UNCHANGED <<scraper, video>>

\* script = await generate_script(title, summary): it returns and the Article
\* is added to the session, or it raises and the loop continues
Scripted ==
    /\ ppc = "script"
    /\ ppc' = "loop"
    /\ \/ /\ session' = Append(session,
                               [from |-> idx,
                                article |-> NewArticle(scrape_results[idx])])
          /\ processed_count' = processed_count + 1
       \/ UNCHANGED <<session, processed_count>>
    /\ UNCHANGED <<runs, scrape_results, idx, reported, articles>>
    /\ UNCHANGED <<scraper, video>>

\* await session.commit() after the loop: every row is inserted and the count
\* is printed, or the commit raises (the database fails, or a row breaks the
\* unique constraint) and nothing is inserted; the session is closed
Commit ==
    /\ ppc = "loop"
    /\ idx = Len(scrape_results)
    /\ \E fault \in BOOLEAN :
         LET ok == ~fault /\ ~Conflict(session, articles)
             out == IF ok THEN [raised |-> FALSE]
                    ELSE CommitExcept("commit failed")
         IN /\ articles' = IF ok THEN articles \cup Added(session) ELSE articles
            /\ reported' = IF ok THEN processed_count ELSE NotReported
            /\ ppc' = IF out.raised THEN "raised" ELSE "idle"
    /\ UNCHANGED <<runs, scrape_results, idx, session, processed_count>>
    /\ UNCHANGED <<scraper, video>>

\* nothing is being scraped
NoBatch ==
    /\ Calling
    /\ urls = <<>>
    /\ ~use_playwright /\ ~PLAYWRIGHT_AVAILABLE /\ ~TRAFILATURA_AVAILABLE
    /\ tracing = "off"

PipelineNext ==
    \/ RunPipeline
    \/ PipelineRecord
    \/ Summarized
    \/ Scripted
    \/ Commit

\* runs of run_pipeline on one database
PipelineSpec == NoBatch /\ [][PipelineNext]_vars

(***************************************************************************)
(* generate_video (src/src/video_provider.py).                             *)
(***************************************************************************)
\* what generate_video returns, and what it raises
Returns(value) == [kind |-> "return", error |-> "", value |-> value]
RaisesError(type) == [kind |-> "raise", error |-> type, value |-> NoVideo]

\* the data of a status response
StatusData(status, video_url, duration) ==
    [status |-> status, video_url |-> video_url, duration |-> duration]

\* what a status poll can answer: an HTTP error status, a failure of the
\* connection, or data
NoDuration == -1
NoData == StatusData("<absent>", "<absent>", NoDuration)
PollAnswers ==
    {[kind |-> "http error", data |-> NoData],
     [kind |-> "network error", data |-> NoData]}
    \cup {[kind |-> "data", data |-> d] :
            d \in {StatusData("completed", "https://cdn.example/v.mp4", 30),
                   StatusData("completed", "https://cdn.example/v.mp4", NoDuration),
                   StatusData("failed", "<absent>", NoDuration),
                   StatusData("processing", "<absent>", NoDuration),
                   NoData}}

\* the dict returned on 'completed'
VideoDone(data) ==
    [id |-> "video_id", status |-> "done", result_url |-> data.video_url,
     video_url |-> data.video_url,
     duration |-> IF data.duration = NoDuration THEN 0 ELSE data.duration,
     provider |-> "heygen"]

\* KeepPolling with the deadline included
KeepPollingInclusive(e, mw) == e <= mw

\* while elapsed < max_wait
KeepPolling(e, mw) == e < mw

\* the loop test with elapsed e and max_wait mw: the next sleep is awaited, or the loop is
\* left and TimeoutError raised
LoopTest(e, mw) ==
    IF KeepPolling(e, mw)
    THEN /\ vpc' = "sleep"
         /\ outcome' = NoOutcome
    ELSE /\ vpc' = "raised"
         /\ outcome' = RaisesError("TimeoutError")

\* generate_video(payload, max_wait) is called: the key is missing, the POST
\* fails or answers without video_id, and it raises; or the job is created
\* and the loop is entered
GenerateVideo ==
    /\ vpc = "idle"
    /\ \E mw \in 0..MaxWait :
         /\ max_wait' = mw
         /\ \/ /\ vpc' = "raised"
               /\ outcome' \in {RaisesError("RuntimeError"),
                                RaisesError("ConnectError")}
            \/ LoopTest(0, mw)
    /\ elapsed' = 0
    /\ UNCHANGED reports
    /\ UNCHANGED <<scraper, pipeline>>

\* await asyncio.sleep(poll_interval); elapsed += poll_interval; the status
\* request is sent
Slept ==
    /\ vpc = "sleep"
    /\ elapsed' = elapsed + PollInterval
    /\ vpc' = "poll"
    /\ UNCHANGED <<max_wait, reports, outcome>>
    /\ UNCHANGED <<scraper, pipeline>>

\* the status request is answered: 'completed' returns, 'failed' or an error
\* raises, anything else goes back to the loop test
Polled ==
    /\ vpc = "poll"
    /\ \E a \in PollAnswers :
         /\ reports' = Append(reports, IF a.kind = "data" THEN a.data.status
                                       ELSE a.kind)
         /\ IF a.kind = "http error"
            THEN vpc' = "raised" /\ outcome' = RaisesError("RuntimeError")
            ELSE IF a.kind = "network error"
            THEN vpc' = "raised" /\ outcome' = RaisesError("ConnectError")
            ELSE IF a.data.status = "completed"
            THEN vpc' = "returned" /\ outcome' = Returns(VideoDone(a.data))
            ELSE IF a.data.status = "failed"
            THEN vpc' = "raised" /\ outcome' = RaisesError("RuntimeError")
            ELSE LoopTest(elapsed, max_wait)
    /\ UNCHANGED <<max_wait, elapsed>>
    /\ UNCHANGED <<scraper, pipeline>>

VideoNext ==
    \/ GenerateVideo
    \/ Slept
    \/ Polled

\* one call of generate_video; a sleep ends and a request is answered or
\* fails within the client's timeout
VideoSpec == NoBatch /\ [][VideoNext]_vars /\ WF_vars(VideoNext)

(***************************************************************************)
(* Reading the log of a call.                                              *)
(***************************************************************************)
Stages == {"playwright", "trafilatura", "beautifulsoup"}

Rank(stage) ==
    IF stage = "playwright" THEN 1 ELSE IF stage = "trafilatura" THEN 2 ELSE 3

Calls(i, stage) ==
    Cardinality({k \in DOMAIN log[i] :
                   log[i][k].ev = "start" /\ log[i][k].stage = stage})

Succeeded(i, stage) ==
    \E k \in DOMAIN log[i] :
       log[i][k].ev = "end" /\ log[i][k].stage = stage /\ log[i][k].ok

\* the stage whose return is the last entry of the log
LastEnded(i, stage) ==
    /\ log[i] # <<>>
    /\ log[i][Len(log[i])].ev = "end"
    /\ log[i][Len(log[i])].stage = stage

\* the record the handler of scrape_url returns
HandlerRecord(i) ==
    [NewItem(urls[i]) EXCEPT !.error = ExceptionText("RuntimeError")]

InPlaywright(i) ==
    pc[i] \in {"pw_enter", "pw_launch", "pw_context", "pw_page", "pw_goto",
               "pw_finally"}

\* the dynamic stage has returned in call i, and nothing was fetched since
PlaywrightReturned(i) ==
    /\ Len(log[i]) >= 2
    /\ log[i][2].stage = "playwright"
    /\ seen[i].stage \in {"", "playwright"}

\* the record a stage returned, when the records are observed
Returned(i, k) == log[i][k].rec

(***************************************************************************)
(* C1 as stated: every returned record with status success has content of  *)
(* at least 300 characters.                                                *)
(***************************************************************************)
C1_SuccessHas300 ==
    /\ \A i \in Tasks :
         pc[i] = "done" /\ ret[i].status = "success"
            => TextLen(ret[i].content) >= 300
    /\ \A k \in DOMAIN returned :
         returned[k].status = "success" => TextLen(returned[k].content) >= 300

(***************************************************************************)
(* C1 as amended: a returned record with status success passed the gate of *)
(* 200 characters of the stage that produced it: its content has at least  *)
(* 200 characters when the Playwright or the BeautifulSoup stage produced  *)
(* it, and the text trafilatura extracted had at least 200 characters      *)
(* before strip() when the static stage produced it.                       *)
(***************************************************************************)
C1_SuccessPassedGate200 ==
    \A i \in Tasks :
       pc[i] = "done" /\ ret[i].status = "success"
          => /\ \E stage \in Stages : LastEnded(i, stage)
             /\ log[i][Len(log[i])].ok
             /\ log[i][Len(log[i])].gate >= 200
             /\ ~LastEnded(i, "trafilatura")
                   => /\ TextLen(ret[i].content) >= 200
                      /\ TextLen(ret[i].content) = log[i][Len(log[i])].gate
             /\ mode = "done" => returned[i].status = "success"
                                  /\ returned[i].content = ret[i].content

C1_Witness ==
    /\ mode = "done"
    /\ \E i \in Tasks :
         /\ returned[i].status = "success"
         /\ LastEnded(i, "playwright")
         /\ TextLen(returned[i].content) = 250

(***************************************************************************)
(* C2: scrape_urls returns len(urls) records and the record at position i  *)
(* is what the extraction of urls[i] returned, in the sequential and in    *)
(* the concurrent mode, in whatever order the extractions finish.          *)
(***************************************************************************)
C2_PositionallyAligned ==
    mode = "done"
       => /\ Len(returned) = Len(urls)
          /\ \A i \in Tasks :
               /\ pc[i] = "done"
               /\ arg[i].url = urls[i]
               /\ returned[i] = ret[i]
               /\ returned[i].url \in FinalUrls(urls[i])

C2_Witness ==
    /\ mode = "done"
    /\ ~Sequential
    /\ completed = <<2, 1>>
    /\ urls[1] # urls[2]
    /\ returned[1] = ret[1]
    /\ returned[1].status = "success"
    /\ returned[2].status = "short_content"

(***************************************************************************)
(* C3: scrape_url never raises: every call that is over returned one       *)
(* record with status success, short_content or failed, whatever the       *)
(* stages and the executor did, so scrape_urls never raises and returns a  *)
(* record for every url.                                                   *)
(***************************************************************************)
C3_NeverRaises ==
    /\ mode # "raised"
    /\ \A i \in Tasks :
         /\ pc[i] # "raised"
         /\ pc[i] = "done" => ret[i].status \in Statuses
         /\ Cardinality({k \in DOMAIN completed : completed[k] = i})
               = IF pc[i] = "done" THEN 1 ELSE 0
    /\ mode = "done" => Len(returned) = Len(urls)

C3_Witness ==
    /\ mode = "done"
    /\ Len(returned) = 2
    /\ returned[1] = HandlerRecord(1)
    /\ returned[2].status = "success"

(***************************************************************************)
(* C4: once a stage returned success the cascade is over: the call         *)
(* returned that record and no later stage is ever called.                 *)
(***************************************************************************)
C4_ShortCircuit ==
    \A i \in Tasks :
       \A k \in DOMAIN log[i] :
          log[i][k].ev = "end" /\ log[i][k].ok
             => /\ k = Len(log[i])
                /\ pc[i] = "done"
                /\ ret[i] = result[i]
                /\ ret[i].status = "success"
                /\ \A stage \in Stages :
                     Rank(stage) > Rank(log[i][k].stage) => Calls(i, stage) = 0

C4_Witness ==
    \E i \in Tasks :
       /\ pc[i] = "done"
       /\ Succeeded(i, "playwright")
       /\ TRAFILATURA_AVAILABLE
       /\ UseTrafilatura(arg[i])
       /\ Calls(i, "trafilatura") = 0
       /\ Calls(i, "beautifulsoup") = 0

(***************************************************************************)
(* C5 as stated: when no earlier stage returned success, the fallback      *)
(* stage is called and the call returns the fallback stage's record.       *)
(***************************************************************************)
C5_FallbackAlwaysReached ==
    \A i \in Tasks :
       /\ pc[i] = "done"
       /\ ~Succeeded(i, "playwright")
       /\ ~Succeeded(i, "trafilatura")
       => /\ Calls(i, "beautifulsoup") = 1
          /\ LastEnded(i, "beautifulsoup")
          /\ ret[i] = result[i]

(***************************************************************************)
(* C5 as amended: when no earlier stage returned success, either the       *)
(* fallback stage was called once and the call returned the fallback       *)
(* stage's record, or run_in_executor raised when the static or the        *)
(* fallback stage was handed to it, and the call returned its own record   *)
(* with status failed and the text of the exception, the fallback stage    *)
(* not having run.                                                         *)
(***************************************************************************)
C5_FallbackUnlessExecutorRaised ==
    \A i \in Tasks :
       /\ pc[i] = "done"
       /\ ~Succeeded(i, "playwright")
       /\ ~Succeeded(i, "trafilatura")
       => \/ /\ Calls(i, "beautifulsoup") = 1
             /\ LastEnded(i, "beautifulsoup")
             /\ ret[i] = result[i]
          \/ /\ Calls(i, "beautifulsoup") = 0
             /\ ret[i] = HandlerRecord(i)

C5_Witness ==
    \E i \in Tasks :
       /\ pc[i] = "done"
       /\ Calls(i, "playwright") = 1
       /\ Calls(i, "trafilatura") = 1
       /\ ~Succeeded(i, "playwright")
       /\ ~Succeeded(i, "trafilatura")
       /\ LastEnded(i, "beautifulsoup")
       /\ ret[i] = result[i]
       /\ ret[i].status = "success"

(***************************************************************************)
(* C6 as stated: whenever the fallback stage has run, the record the call  *)
(* returns has status success or short_content, never failed.              *)
(***************************************************************************)
C6_FallbackNeverFailed ==
    \A i \in Tasks :
       pc[i] = "done" /\ LastEnded(i, "beautifulsoup")
          => ret[i].status \in {"success", "short_content"}

(***************************************************************************)
(* C6 as amended: the fallback stage is terminal and never raises: when it *)
(* has run, the call is over and returned the fallback stage's record,     *)
(* which is success (at least 200 characters) or short_content (with the   *)
(* length of its content in the error) when the fetch and the parse went   *)
(* through, and failed, with the text of the exception as error and no     *)
(* content, when the fetch raised.                                         *)
(***************************************************************************)
C6_FallbackTerminal ==
    \A i \in Tasks :
       LastEnded(i, "beautifulsoup")
          => /\ pc[i] = "done"
             /\ ret[i] = result[i]
             /\ ret[i].status \in Statuses
             /\ ret[i].status = "success"
                   => TextLen(ret[i].content) >= 200 /\ ret[i].error = NoError
             /\ ret[i].status = "short_content"
                   => /\ TextLen(ret[i].content) < 200
                      /\ ret[i].error = TooShort(TextLen(ret[i].content))
             /\ ret[i].status = "failed"
                   => /\ ret[i].error.kind = "exc"
                      /\ ret[i].error.msg \in FetchErrors
                      /\ ret[i].content = <<>>

C6_Witness ==
    \E i \in Tasks :
       /\ pc[i] = "done"
       /\ LastEnded(i, "beautifulsoup")
       /\ ret[i].status = "failed"
       /\ ret[i].error = ExceptionText("ReadTimeout")

(***************************************************************************)
(* C7: in a dynamic-mode batch the urls are processed one at a time: the   *)
(* call for a url starts only when the calls for all earlier urls are      *)
(* over, and at most one call holds renderer resources.                    *)
(***************************************************************************)
C7_OneRendererAtATime ==
    Sequential
       => /\ Cardinality({i \in Tasks : held[i] # {}}) <= 1
          /\ Cardinality({i \in Tasks : pc[i] \notin {"idle", "done"}}) <= 1
          /\ \A i, j \in Tasks :
               i < j /\ pc[j] # "idle" => pc[i] = "done" /\ held[i] = {}

C7_Witness ==
    /\ Sequential
    /\ Len(urls) = 2
    /\ pc[1] = "done"
    /\ Calls(1, "playwright") = 1
    /\ pc[2] = "pw_goto"
    /\ "browser" \in held[2]

(***************************************************************************)
(* C8: when a call of the dynamic stage is over, on whatever path, none of *)
(* the renderer resources it acquired is still held.                       *)
(***************************************************************************)
C8_RendererReleased ==
    \A i \in Tasks : ~InPlaywright(i) => held[i] = {}

\* the page was extracted with success and a close call raised in the finally
C8_Witness ==
    \E i \in Tasks :
       /\ pc[i] = "done"
       /\ LastEnded(i, "playwright")
       /\ ret[i].status = "success"
       /\ ret[i].error = ExceptionText("close failed")
       /\ held[i] = {}

(***************************************************************************)
(* C9: within one call the stages run in the order dynamic, static,        *)
(* fallback, one after the other: a stage is called only when the stage    *)
(* called before it has returned, and never after a later stage.           *)
(***************************************************************************)
C9_StagesInOrder ==
    \A i \in Tasks :
       /\ \A k \in DOMAIN log[i] :
            IF log[i][k].ev = "start"
            THEN /\ k > 1 => log[i][k - 1].ev = "end"
                 /\ \A m \in 1..(k - 1) :
                      Rank(log[i][m].stage) < Rank(log[i][k].stage)
            ELSE /\ k > 1
                 /\ log[i][k - 1] = Started(log[i][k].stage)
       /\ InPlaywright(i) <=> log[i] # <<>> /\ log[i][Len(log[i])] = Started("playwright")
       /\ pc[i] = "tr_run" <=> log[i] # <<>> /\ log[i][Len(log[i])] = Started("trafilatura")
       /\ pc[i] = "bs_run" <=> log[i] # <<>> /\ log[i][Len(log[i])] = Started("beautifulsoup")

C9_Witness ==
    \E i \in Tasks :
       /\ pc[i] = "bs_run"
       /\ Len(log[i]) = 5
       /\ log[i][1] = Started("playwright")
       /\ log[i][3] = Started("trafilatura")
       /\ log[i][5] = Started("beautifulsoup")

(***************************************************************************)
(* C10: within one call each stage is called at most once, and a stage     *)
(* that returned without success is followed by nothing but the call of a  *)
(* later stage or the end of the call.                                     *)
(***************************************************************************)
C10_NoRetry ==
    \A i \in Tasks :
       /\ \A stage \in Stages : Calls(i, stage) <= 1
       /\ \A k \in DOMAIN log[i] :
            log[i][k].ev = "end" /\ ~log[i][k].ok /\ k < Len(log[i])
               => /\ log[i][k + 1].ev = "start"
                  /\ Rank(log[i][k + 1].stage) > Rank(log[i][k].stage)

C10_Witness ==
    \E i \in Tasks :
       /\ pc[i] = "done"
       /\ \A stage \in Stages : Calls(i, stage) = 1 /\ ~Succeeded(i, stage)
       /\ ret[i].status = "failed"

C12_DisabledAfterEngineFailure ==
    \A j \in Tasks :
       failure.why = "engine" /\ failure.task < j => Calls(j, "playwright") = 0

(***************************************************************************)
(* C12 as amended: a renderer that does not start fails the dynamic stage  *)
(* of that url only: in a dynamic-mode batch the call for every url starts *)
(* with one call of the dynamic stage, also for the urls after one for     *)
(* which the renderer did not start.                                       *)
(***************************************************************************)
C12_RetriedPerUrl ==
    \A j \in Tasks :
       pc[j] \notin {"idle", "start"}
          => /\ log[j] # <<>>
             /\ log[j][1] = Started("playwright")
             /\ Calls(j, "playwright") = 1

C12_Witness ==
    /\ failure = [task |-> 1, why |-> "engine"]
    /\ Len(urls) = 2
    /\ pc[1] = "done"
    /\ pc[2] = "pw_launch"
    /\ "driver" \in held[2]

(***************************************************************************)
(* C15 as stated: in a dynamic-mode batch of two urls where the dynamic    *)
(* stage succeeds for the first url and the navigation times out for the   *)
(* second, scrape_urls returns two records in input order, the first with  *)
(* status success, the second with status short_content or failed.         *)
(***************************************************************************)
C15_SecondDegraded ==
    /\ mode = "done"
    /\ Len(urls) = 2
    /\ Succeeded(1, "playwright")
    /\ failure = [task |-> 2, why |-> "timeout"]
    => /\ Len(returned) = 2
       /\ returned[1] = ret[1] /\ returned[2] = ret[2]
       /\ returned[1].status = "success"
       /\ returned[2].status \in {"short_content", "failed"}

(***************************************************************************)
(* C15 as amended: in that batch scrape_urls returns two records in input  *)
(* order; the first is the dynamic stage's, with status success; the       *)
(* second is not the dynamic stage's but what the rest of the cascade      *)
(* returned for the second url (the record of the static or the fallback   *)
(* stage, or the record of the handler of scrape_url): it has status       *)
(* success exactly when the static or the fallback stage succeeded for it, *)
(* and status short_content or failed otherwise.                           *)
(***************************************************************************)
C15_SecondFromLaterStage ==
    /\ mode = "done"
    /\ Len(urls) = 2
    /\ Succeeded(1, "playwright")
    /\ failure = [task |-> 2, why |-> "timeout"]
    => /\ Len(returned) = 2
       /\ returned[1] = ret[1] /\ returned[2] = ret[2]
       /\ arg[1].url = urls[1] /\ arg[2].url = urls[2]
       /\ returned[1].status = "success"
       /\ LastEnded(1, "playwright")
       /\ \/ LastEnded(2, "trafilatura")
          \/ LastEnded(2, "beautifulsoup")
          \/ returned[2] = HandlerRecord(2)
       /\ returned[2].status \in Statuses
       /\ returned[2].status = "success"
             <=> Succeeded(2, "trafilatura") \/ Succeeded(2, "beautifulsoup")

C15_Witness ==
    /\ mode = "done"
    /\ Len(urls) = 2
    /\ Succeeded(1, "playwright")
    /\ failure = [task |-> 2, why |-> "timeout"]
    /\ returned[1].status = "success"
    /\ returned[2].status = "short_content"
    /\ LastEnded(2, "beautifulsoup")

(***************************************************************************)
(* C13: when the navigation of the dynamic stage raises, the stage returns *)
(* a record with status failed whose error is the text of that exception.  *)
(***************************************************************************)
C13_NavigationErrorKept ==
    \A i \in Tasks :
       seen[i].stage = "playwright" /\ seen[i].raised /\ PlaywrightReturned(i)
          => /\ Returned(i, 2).status = "failed"
             /\ Returned(i, 2).error = NavigationFailed(seen[i].src)

(***************************************************************************)
(* C13, what the code does: when the navigation of the dynamic stage       *)
(* raises, the handler inside the stage keeps status failed and sets error *)
(* to "Navigation failed: " and the text of the exception; the stage       *)
(* returns a record with status failed, no content and the url as given,   *)
(* whose error is that text, or the text of the exception a close call     *)
(* raised in the finally block after it; nothing is raised out of the      *)
(* stage and the call goes on with the next stage.                         *)
(***************************************************************************)
C13_NavigationFailureConverted ==
    \A i \in Tasks :
       seen[i].stage = "playwright" /\ seen[i].raised
          => /\ pc[i] # "raised"
             /\ pc[i] = "pw_finally"
                   => item[i] = [NewItem(arg[i].url) EXCEPT
                                   !.error = NavigationFailed(seen[i].src)]
             /\ pc[i] # "pw_finally"
                   => /\ PlaywrightReturned(i)
                      /\ Returned(i, 2).status = "failed"
                      /\ Returned(i, 2).content = <<>>
                      /\ Returned(i, 2).url = arg[i].url
                      /\ Returned(i, 2).error
                            \in {NavigationFailed(seen[i].src),
                                 ExceptionText("close failed")}
                      /\ Len(log[i]) = 2
                            => pc[i] = "done" /\ ret[i] = HandlerRecord(i)
                      /\ Len(log[i]) > 2
                            => /\ log[i][3].ev = "start"
                               /\ Rank(log[i][3].stage) > 1

C13_Witness ==
    \E i \in Tasks :
       /\ seen[i] = [stage |-> "playwright", raised |-> TRUE,
                     src |-> NavigationTimeout]
       /\ PlaywrightReturned(i)
       /\ Returned(i, 2).error = NavigationFailed(NavigationTimeout)
       /\ pc[i] = "tr_run"

(***************************************************************************)
(* C14: every record a stage returned and every record scrape_url returned *)
(* that has a status other than success carries an error text.             *)
(***************************************************************************)
C14_ErrorWhenNotSuccess ==
    \A i \in Tasks :
       /\ \A k \in DOMAIN log[i] :
            log[i][k].ev = "end" /\ Returned(i, k).status # "success"
               => /\ Returned(i, k).status \in {"short_content", "failed"}
                  /\ Returned(i, k).error # NoError
                  /\ Returned(i, k).error.kind \in {"short", "nav", "exc"}
       /\ pc[i] = "done" /\ ret[i].status # "success"
            => /\ ret[i].error # NoError
               /\ ret[i].error.kind \in {"short", "nav", "exc"}

C14_Witness ==
    \E i \in Tasks :
       /\ pc[i] = "done"
       /\ Len(log[i]) = 6
       /\ Returned(i, 2).status = "failed"
       /\ Returned(i, 2).error.kind = "nav"
       /\ Returned(i, 4).status = "short_content"
       /\ Returned(i, 4).error = TooShort(50)
       /\ ret[i].status = "failed"
       /\ ret[i].error = ExceptionText("HTTPError 404")

(***************************************************************************)
(* C16 as stated: for a url whose dynamic stage and static stage both      *)
(* ended without success, if the markup served to the fallback stage       *)
(* contains one paragraph of 500 characters, scrape_url returns a record   *)
(* with status success that the fallback stage produced.                   *)
(***************************************************************************)
C16_FallbackGuarantee ==
    \A i \in Tasks :
       /\ pc[i] = "done"
       /\ seen[i].stage = "beautifulsoup" /\ ~seen[i].raised
       /\ Len(log[i]) = 6
       /\ \E k \in DOMAIN seen[i].src.doc.paras :
             TextLen(seen[i].src.doc.paras[k].text) = 500
       => /\ ret[i].status = "success"
          /\ LastEnded(i, "beautifulsoup")
          /\ ret[i] = Returned(i, 6)

(***************************************************************************)
(* C16 as amended: for a url whose dynamic stage and static stage both     *)
(* ended without success, if the markup served to the fallback stage       *)
(* contains one paragraph of 500 characters whose whitespace-normalized    *)
(* text has at least 200 characters, and that paragraph is outside every   *)
(* script, style, nav, footer, header and aside element and inside the     *)
(* element the fallback stage reads (the article element if the document   *)
(* has one, else main, else body), scrape_url returns a record with status *)
(* success that the fallback stage produced, with content of at least 200  *)
(* characters.                                                             *)
(***************************************************************************)
C16_FallbackGuaranteeInRoot ==
    \A i \in Tasks :
       /\ pc[i] = "done"
       /\ seen[i].stage = "beautifulsoup" /\ ~seen[i].raised
       /\ Len(log[i]) = 6
       /\ LET doc == seen[i].src.doc
              read == IF "article" \in doc.tags THEN {"article"}
                      ELSE IF "main" \in doc.tags THEN {"main"}
                      ELSE IF "body" \in doc.tags THEN {"body"}
                      ELSE {}
          IN \E k \in DOMAIN doc.paras :
                /\ TextLen(doc.paras[k].text) = 500
                /\ TextLen(Normalize(doc.paras[k].text)) >= 200
                /\ doc.paras[k].inside
                      \cap {"script", "style", "nav", "footer", "header", "aside"}
                   = {}
                /\ read \subseteq doc.paras[k].inside
       => /\ ~log[i][2].ok /\ log[i][2].stage = "playwright"
          /\ ~log[i][4].ok /\ log[i][4].stage = "trafilatura"
          /\ ret[i].status = "success"
          /\ LastEnded(i, "beautifulsoup")
          /\ ret[i] = Returned(i, 6)
          /\ TextLen(ret[i].content) >= 200

C16_Witness ==
    \E i \in Tasks :
       /\ pc[i] = "done"
       /\ Len(log[i]) = 6
       /\ Returned(i, 2).status = "short_content"
       /\ Returned(i, 4).status = "short_content"
       /\ seen[i] = [stage |-> "beautifulsoup", raised |-> FALSE,
                     src |-> [kind |-> "ok", msg |-> "", doc |-> PlainDocument,
                              redirected |-> FALSE]]
       /\ ret[i].status = "success"
       /\ TextLen(ret[i].content) = 500

\* entry k of the log of call i is the return of the stage that met seen[i]:
\* the last return logged, by the stage seen[i] names
Met(i, k) ==
    /\ k \in DOMAIN log[i]
    /\ log[i][k].ev = "end"
    /\ log[i][k].stage = seen[i].stage
    /\ \A m \in DOMAIN log[i] : log[i][m].ev = "end" => m <= k

(***************************************************************************)
(* C17 as stated: the url of every returned record is the final            *)
(* (post-redirect) url of the page the content came from, whichever stage  *)
(* produced it: when the fetch or the navigation followed a redirect, the  *)
(* url of the record is the redirect target, for the dynamic, the static   *)
(* and the fallback stage alike.                                           *)
(***************************************************************************)
C17_UrlIsFinal ==
    \A i \in Tasks : \A k \in DOMAIN log[i] :
       Met(i, k) /\ ~seen[i].raised
          => Returned(i, k).url
                = IF seen[i].stage = "playwright" THEN seen[i].src.final
                  ELSE FetchFinal(arg[i].url, seen[i].src)

(***************************************************************************)
(* C17 as amended: only the dynamic stage resolves the url: the record it  *)
(* returns after a navigation that did not raise has the url the page      *)
(* ended on, the redirect target when a redirect was followed.  Every      *)
(* other record has the input url as given: the record of the dynamic      *)
(* stage when the navigation or a step before it raised, the record of the *)
(* static and of the fallback stage, also when the fetch followed a        *)
(* redirect to another url, and the record of the handler of scrape_url.   *)
(* scrape_url returns the url of the record it returns unchanged.          *)
(***************************************************************************)
C17_UrlFinalInDynamicStageOnly ==
    \A i \in Tasks :
       /\ \A k \in DOMAIN log[i] :
            log[i][k].ev = "end"
               => /\ log[i][k].stage \in {"trafilatura", "beautifulsoup"}
                        => Returned(i, k).url = arg[i].url
                  /\ log[i][k].stage = "playwright" /\ PlaywrightReturned(i)
                        => Returned(i, k).url
                              = IF seen[i].stage = "playwright" /\ ~seen[i].raised
                                THEN seen[i].src.final
                                ELSE arg[i].url
       /\ pc[i] = "done"
            => \/ ret[i] = HandlerRecord(i) /\ ret[i].url = arg[i].url
               \/ ret[i] = Returned(i, Len(log[i]))

C17_Witness ==
    \E i \in Tasks :
       /\ pc[i] = "done"
       /\ Met(i, Len(log[i]))
       /\ seen[i].stage = "trafilatura"
       /\ seen[i].src.redirected
       /\ FetchFinal(arg[i].url, seen[i].src) = PublisherUrl
       /\ ret[i].status = "success"
       /\ ret[i].url = PlainUrl
       /\ Returned(i, 2).status = "short_content"
       /\ Returned(i, 2).url = PublisherUrl

(***************************************************************************)
(* C18 as stated: every stage classifies by the 300-character gate on the  *)
(* whitespace-normalized content: status is success exactly when the       *)
(* normalized length is at least 300, otherwise short_content with an      *)
(* error that states the observed length, which is the length of the       *)
(* content of the returned record.                                         *)
(***************************************************************************)
C18_Gate300OnNormalized ==
    \A i \in Tasks : \A k \in DOMAIN log[i] :
       Met(i, k) /\ ~seen[i].raised
          => /\ Returned(i, k).content = Normalize(Returned(i, k).content)
             /\ Returned(i, k).status = "success"
                   <=> TextLen(Returned(i, k).content) >= 300
             /\ Returned(i, k).status # "success"
                   => /\ Returned(i, k).status = "short_content"
                      /\ Returned(i, k).error
                            = TooShort(TextLen(Returned(i, k).content))

(***************************************************************************)
(* C18 as amended: the gate of every stage is 200 characters.  The dynamic *)
(* and the fallback stage classify on the whitespace-normalized content:   *)
(* status is success exactly when its length is at least 200, otherwise    *)
(* short_content with an error that states that length, which is the       *)
(* length of the content of the returned record; in the record the dynamic *)
(* stage returns, that error (or no error, on success) is replaced by the  *)
(* text of the exception when a close call raises after the                *)
(* classification.  The static stage classifies on the text as extracted,  *)
(* not normalized: status is success exactly when it has at least 200      *)
(* characters, and the content is then that text stripped at both ends;    *)
(* otherwise short_content with empty content and an error that states the *)
(* length of the extracted text.                                           *)
(***************************************************************************)
C18_Gate200 ==
    \A i \in Tasks :
       /\ pc[i] = "pw_finally" /\ ~seen[i].raised
            => /\ item[i].content = Normalize(SelectContent(seen[i].src))
               /\ item[i].status = "success" <=> TextLen(item[i].content) >= 200
               /\ item[i].status # "success"
                     => /\ item[i].status = "short_content"
                        /\ item[i].error = TooShort(TextLen(item[i].content))
               /\ item[i].status = "success" => item[i].error = NoError
       /\ \A k \in DOMAIN log[i] :
            Met(i, k) /\ ~seen[i].raised
               => LET r == Returned(i, k)
                      short == TextLen(r.content) < 200
                  IN /\ seen[i].stage \in {"playwright", "beautifulsoup"}
                           => /\ r.content = Normalize(r.content)
                              /\ r.status = IF short THEN "short_content"
                                            ELSE "success"
                              /\ \/ r.error = IF short
                                              THEN TooShort(TextLen(r.content))
                                              ELSE NoError
                                 \/ /\ seen[i].stage = "playwright"
                                    /\ r.error = ExceptionText("close failed")
                     /\ seen[i].stage = "trafilatura"
                           => LET x == seen[i].src.extracted.text
                              IN IF TextLen(x) >= 200
                                 THEN /\ r.status = "success"
                                      /\ r.content = Strip(x)
                                      /\ r.error = NoError
                                 ELSE /\ r.status = "short_content"
                                      /\ r.content = <<>>
                                      /\ r.error = TooShort(TextLen(x))

C18_Witness ==
    \E i \in Tasks :
       /\ Len(log[i]) >= 4
       /\ Met(i, 4)
       /\ Returned(i, 2).status = "short_content"
       /\ TextLen(Returned(i, 2).content) = 50
       /\ Returned(i, 2).error = TooShort(50)
       /\ seen[i].stage = "trafilatura"
       /\ seen[i].src.extracted = Extracted(Short50)
       /\ Returned(i, 4).status = "short_content"
       /\ Returned(i, 4).content = <<>>
       /\ Returned(i, 4).error = TooShort(50)

(***************************************************************************)
(* C19 as stated: the dynamic stage selects the content of the first       *)
(* candidate, in the priority order, whose cleaned (whitespace-normalized) *)
(* text exceeds 400 characters; a later candidate is used only when the    *)
(* cleaned text of every earlier one was at most 400 characters or absent. *)
(***************************************************************************)
C19_FirstOver400Wins ==
    \A i \in Tasks :
       pc[i] = "pw_finally" /\ ~seen[i].raised
          => LET page == seen[i].src
                 read == {j \in 1..4 :
                            \/ j = 1 /\ page.article.kind = "text"
                            \/ j = 2 /\ page.main.kind = "text"
                            \/ j = 3 /\ page.paragraphs.kind = "list"
                            \/ j = 4 /\ page.body.kind = "text"}
                 text(j) ==
                     IF j = 1 THEN page.article.text
                     ELSE IF j = 2 THEN page.main.text
                     ELSE IF j = 3
                     THEN JoinParagraphs(StrippedNonEmpty(page.paragraphs.list))
                     ELSE page.body.text
                 over == {j \in read : TextLen(Normalize(text(j))) > 400}
             IN \A j \in over :
                   (\A m \in over : j <= m)
                      => item[i].content = Normalize(text(j))

(***************************************************************************)
(* C19 as amended: the candidates are tried in the fixed priority order    *)
(* article, main, all paragraphs joined, body, and the threshold is 200    *)
(* characters of the text as read, before it is cleaned: the selected      *)
(* content is the cleaned text of the first candidate that could be read   *)
(* and whose text as read has at least 200 characters; a later candidate   *)
(* is used only when the text of every earlier one had fewer than 200      *)
(* characters, was absent or could not be read.  When no candidate has 200 *)
(* characters, the text of the last candidate that could be read is        *)
(* selected, and the empty text when none could.                           *)
(***************************************************************************)
C19_FirstWith200RawWins ==
    \A i \in Tasks :
       pc[i] = "pw_finally" /\ ~seen[i].raised
          => LET page == seen[i].src
                 read == {j \in 1..4 :
                            \/ j = 1 /\ page.article.kind = "text"
                            \/ j = 2 /\ page.main.kind = "text"
                            \/ j = 3 /\ page.paragraphs.kind = "list"
                            \/ j = 4 /\ page.body.kind = "text"}
                 text(j) ==
                     IF j = 1 THEN page.article.text
                     ELSE IF j = 2 THEN page.main.text
                     ELSE IF j = 3
                     THEN JoinParagraphs(StrippedNonEmpty(page.paragraphs.list))
                     ELSE page.body.text
                 enough == {j \in read : TextLen(text(j)) >= 200}
                 chosen == IF enough # {}
                           THEN {j \in enough : \A m \in enough : j <= m}
                           ELSE {j \in read : \A m \in read : m <= j}
             IN /\ chosen = {} => item[i].content = <<>>
                /\ \A j \in chosen : item[i].content = Normalize(text(j))

C19_Witness ==
    \E i \in Tasks :
       /\ pc[i] = "pw_finally"
       /\ seen[i] = [stage |-> "playwright", raised |-> FALSE,
                     src |-> Page(PlainUrl, "Headline", DigestPage)]
       /\ item[i].content = Normalize(Mid250)
       /\ item[i].status = "success"

(***************************************************************************)
(* C20: an exception raised inside one selector attempt of the dynamic     *)
(* stage (article, main, paragraphs, body) is swallowed: it does not       *)
(* propagate and does not turn the result of the stage into failed; the    *)
(* selection goes on with the next candidate (when no earlier candidate    *)
(* had enough text, the content is that of a candidate after the one that  *)
(* raised, if one can be read), and the stage ends with success or         *)
(* short_content according to the content gathered.                        *)
(***************************************************************************)
C20_SelectorExceptionSwallowed ==
    \A i \in Tasks :
       seen[i].stage = "playwright" /\ ~seen[i].raised
          => LET page == seen[i].src
                 read == {j \in 1..4 :
                            \/ j = 1 /\ page.article.kind = "text"
                            \/ j = 2 /\ page.main.kind = "text"
                            \/ j = 3 /\ page.paragraphs.kind = "list"
                            \/ j = 4 /\ page.body.kind = "text"}
                 raised == {j \in 1..4 :
                              \/ j = 1 /\ page.article.kind = "raise"
                              \/ j = 2 /\ page.main.kind = "raise"
                              \/ j = 3 /\ page.paragraphs.kind = "raise"
                              \/ j = 4 /\ page.body.kind = "raise"}
                 text(j) ==
                     IF j = 1 THEN page.article.text
                     ELSE IF j = 2 THEN page.main.text
                     ELSE IF j = 3
                     THEN JoinParagraphs(StrippedNonEmpty(page.paragraphs.list))
                     ELSE page.body.text
                 r == IF pc[i] = "pw_finally" THEN item[i] ELSE Returned(i, 2)
             IN raised # {}
                   => /\ pc[i] # "raised"
                      /\ pc[i] # "pw_finally" => PlaywrightReturned(i)
                      /\ r.status \in {"success", "short_content"}
                      /\ r.status = "success" <=> TextLen(r.content) >= 200
                      /\ r.url = page.final
                      /\ r.error.kind # "nav"
                      /\ \A j \in raised :
                            /\ \A m \in read : m < j => TextLen(text(m)) < 200
                            /\ \E m \in read : m > j
                            => \E m \in read :
                                  m > j /\ r.content = Normalize(text(m))

C20_Witness ==
    \E i \in Tasks :
       /\ pc[i] = "tr_run"
       /\ seen[i].stage = "playwright" /\ ~seen[i].raised
       /\ seen[i].src.article = Raises
       /\ seen[i].src.main = Raises
       /\ seen[i].src.paragraphs = ParagraphsRaise
       /\ seen[i].src.body = Element(Spaced310)
       /\ PlaywrightReturned(i)
       /\ Returned(i, 2).status = "short_content"
       /\ Returned(i, 2).error = TooShort(161)

(***************************************************************************)
(* C21 as stated: the content of every returned record is                  *)
(* whitespace-normalized, and every comparison of a content length with a  *)
(* threshold (the selector threshold and the gate, in all three stages) is *)
(* made on the normalized text, not on the raw text.                       *)
(***************************************************************************)
C21_NormalizedEverywhere ==
    \A i \in Tasks :
       /\ \A k \in DOMAIN log[i] :
            log[i][k].ev = "end"
               => /\ Returned(i, k).content = Normalize(Returned(i, k).content)
                  /\ Returned(i, k).status = "success"
                        => TextLen(Normalize(Returned(i, k).content)) >= 200
       /\ pc[i] = "pw_finally" /\ ~seen[i].raised
            => LET page == seen[i].src
               IN /\ page.article.kind = "text"
                  /\ TextLen(Normalize(page.article.text)) < 200
                  /\ page.main.kind = "text"
                  => item[i].content # Normalize(page.article.text)

(***************************************************************************)
(* C21 as amended: the content of every record of the dynamic and of the   *)
(* fallback stage is whitespace-normalized, and their gate compares the    *)
(* length of the normalized text.  The content of a success record of the  *)
(* static stage is the extracted text stripped at both ends, its inner     *)
(* whitespace kept as extracted, and the gate of the static stage compares *)
(* the length of the text as extracted.  The selector threshold of the     *)
(* dynamic stage compares the length of the raw text of a candidate: a     *)
(* candidate with at least 200 raw characters is kept, whatever its        *)
(* normalized length, and no later candidate is tried.                     *)
(***************************************************************************)
C21_NormalizedWhereCleaned ==
    \A i \in Tasks :
       /\ \A k \in DOMAIN log[i] :
            log[i][k].ev = "end"
               => /\ log[i][k].stage \in {"playwright", "beautifulsoup"}
                        => /\ Returned(i, k).content
                                 = Normalize(Returned(i, k).content)
                           /\ Returned(i, k).status = "success"
                                 <=> TextLen(Normalize(Returned(i, k).content))
                                        >= 200
                  /\ Met(i, k) /\ log[i][k].stage = "trafilatura"
                        => LET x == seen[i].src.extracted.text
                           IN /\ Returned(i, k).status = "success"
                                    <=> TextLen(x) >= 200
                              /\ Returned(i, k).status = "success"
                                    => Returned(i, k).content = Strip(x)
       /\ pc[i] = "pw_finally" /\ ~seen[i].raised
            => LET page == seen[i].src
               IN /\ page.article.kind = "text"
                        /\ TextLen(page.article.text) >= 200
                        => item[i].content = Normalize(page.article.text)
                  /\ page.article.kind # "text" /\ page.main.kind = "text"
                        /\ TextLen(page.main.text) >= 200
                        => item[i].content = Normalize(page.main.text)
       /\ pc[i] = "done"
            => \/ ret[i] = HandlerRecord(i)
               \/ ret[i] = Returned(i, Len(log[i]))

C21_Witness ==
    \E i \in Tasks :
       /\ pc[i] = "done"
       /\ Len(log[i]) = 4
       /\ Returned(i, 2).status = "short_content"
       /\ Returned(i, 2).content = Normalize(Spaced310)
       /\ Returned(i, 2).title = "Headline"
       /\ Met(i, 4)
       /\ seen[i].stage = "trafilatura"
       /\ seen[i].src.extracted = Extracted(Spaced310)
       /\ ret[i].status = "success"
       /\ ret[i].content = Spaced310
       /\ ret[i].content # Normalize(ret[i].content)

(***************************************************************************)
(* C25: the static stage is called for a url only if trafilatura is        *)
(* available, the dynamic stage did not return success for the url, and    *)
(* the url does not contain 'news.google.com'; for a url that contains it  *)
(* the cascade goes from the dynamic stage, or from the start, directly to *)
(* the fallback stage.                                                     *)
(***************************************************************************)
C25_StaticStageGuard ==
    \A i \in Tasks :
       /\ Calls(i, "trafilatura") > 0
            => /\ TRAFILATURA_AVAILABLE
               /\ ~Succeeded(i, "playwright")
               /\ ~Contains(arg[i].url, "news.google.com")
       /\ pc[i] # "idle" /\ Contains(arg[i].url, "news.google.com")
            => /\ Calls(i, "trafilatura") = 0
               /\ pc[i] # "tr_run"
               /\ \A k \in DOMAIN log[i] :
                     log[i][k].ev = "start" /\ log[i][k].stage # "playwright"
                        => /\ log[i][k].stage = "beautifulsoup"
                           /\ \/ k = 1
                              \/ /\ k = 3
                                 /\ log[i][2].ev = "end"
                                 /\ log[i][2].stage = "playwright"
                                 /\ ~log[i][2].ok

C25_Witness ==
    \E i \in Tasks :
       /\ arg[i].url = GoogleNewsUrl
       /\ TRAFILATURA_AVAILABLE
       /\ pc[i] = "done"
       /\ Len(log[i]) = 4
       /\ log[i][1].stage = "playwright"
       /\ ~log[i][2].ok
       /\ log[i][3] = Started("beautifulsoup")
       /\ ret[i].status = "success"

(***************************************************************************)
(* C26: every record scrape_url returns with status success has no error,  *)
(* and every record with status failed has empty content, on all paths of  *)
(* the dynamic stage, also when a close call raises after the content was  *)
(* extracted and classified.                                               *)
(***************************************************************************)
C26_StatusAgreesWithErrorAndContent ==
    \A i \in Tasks :
       pc[i] = "done"
          => /\ ret[i].status = "success" => ret[i].error = NoError
             /\ ret[i].status = "failed" => ret[i].content = <<>>

(***************************************************************************)
(* C26, what the code does: a record with status failed has empty content, *)
(* and a record with status success has no error unless it is the record   *)
(* of the dynamic stage and a close call raised after the classification:  *)
(* its error is then the text of that exception.                           *)
(***************************************************************************)
C26_ErrorOnlyFromClose ==
    \A i \in Tasks :
       pc[i] = "done"
          => /\ ret[i].status = "failed" => ret[i].content = <<>>
             /\ ret[i].status = "success" /\ ret[i].error # NoError
                   => /\ LastEnded(i, "playwright")
                      /\ Len(log[i]) = 2
                      /\ ret[i].error = ExceptionText("close failed")
                      /\ TextLen(ret[i].content) >= 200

C24_OnlyGoodRecordsPersisted ==
    /\ \A k \in DOMAIN session :
         /\ session[k].from \in 1..idx
         /\ \A m \in DOMAIN session : k < m => session[k].from < session[m].from
         /\ LET rec == scrape_results[session[k].from]
            IN /\ rec.status = "success"
               /\ TextLen(rec.content) >= 200
               /\ session[k].article.url = rec.url
               /\ session[k].article.content = Take(rec.content, 10000)
    /\ \A m \in 1..idx :
         scrape_results[m].status # "success"
         \/ TextLen(scrape_results[m].content) < 200
            => /\ \A k \in DOMAIN session : session[k].from # m
               /\ ~(idx = m /\ ppc \in {"summarize", "script"})
    /\ processed_count = Len(session)
    /\ reported # NotReported
          => /\ reported = Len(session)
             /\ \A k \in DOMAIN session :
                   /\ session[k].article \in articles
                   /\ session[k].article.url
                         = scrape_results[session[k].from].url

C24_Witness ==
    /\ ppc = "idle"
    /\ Len(scrape_results) = 2
    /\ scrape_results[1].status = "success"
    /\ TextLen(scrape_results[1].content) = 199
    /\ scrape_results[2].status = "success"
    /\ scrape_results[2].url = PublisherUrl
    /\ reported = 1
    /\ Len(session) = 1
    /\ session[1].from = 2
    /\ \E row \in articles : row.url = PublisherUrl

(***************************************************************************)
(* C27: the persistence of a run of run_pipeline is all-or-nothing.  The   *)
(* table changes only in the one commit after the last record, which       *)
(* inserts every Article added during the loop; an exception while         *)
(* summarizing or scripting an article skips that article only and the     *)
(* loop goes on with the remaining records; when the commit fails, as it   *)
(* does when two Articles of the run, or one of them and a stored Article, *)
(* have the same url, no Article of the run is inserted and run_pipeline   *)
(* returns without raising; no two rows of the table ever have the same    *)
(* url.                                                                    *)
(***************************************************************************)
C27_AllOrNothing ==
    [][LET committing == ppc = "loop" /\ idx = Len(scrape_results)
                         /\ ppc' = "idle"
           rows == {session[k].article : k \in DOMAIN session}
           clash ==
               \/ \E k, m \in DOMAIN session :
                     k # m /\ session[k].article.url = session[m].article.url
               \/ \E k \in DOMAIN session : \E row \in articles :
                     session[k].article.url = row.url
       IN /\ articles' # articles
             => /\ committing
                /\ articles' = articles \cup rows
                /\ reported' = processed_count
                /\ Len(session) = processed_count
          /\ committing => articles' \in {articles, articles \cup rows}
          /\ committing /\ clash
             => articles' = articles /\ reported' = NotReported
          /\ ppc \in {"summarize", "script"}
             => /\ ppc' \in {"script", "loop"}
                /\ idx' = idx
                /\ scrape_results' = scrape_results
                /\ articles' = articles
                /\ \/ session' = session
                   \/ /\ ppc = "script"
                      /\ Len(session') = Len(session) + 1
                      /\ SubSeq(session', 1, Len(session)) = session
          /\ ppc' \in {"idle", "loop", "summarize", "script"}
          /\ \A a, b \in articles' : a.url = b.url => a = b
    ]_vars

C27_Witness ==
    /\ ppc = "idle"
    /\ runs = 2
    /\ reported = NotReported
    /\ Len(scrape_results) = 2
    /\ Len(session) = 1
    /\ session[1].from = 2
    /\ ~Discarded(scrape_results[1])
    /\ session[1].article.url = PublisherUrl
    /\ session[1].article \notin articles
    /\ \E row \in articles : row.url = PublisherUrl
    /\ Cardinality(articles) = 1

(***************************************************************************)
(* C28: the polling loop of generate_video always terminates.  After the   *)
(* job is created it polls the status at most ceil(max_wait / 10) times;   *)
(* it returns a result with status 'done' on the first poll that reports   *)
(* 'completed' and raises on the first poll that reports 'failed', and     *)
(* does not poll again after either; it raises TimeoutError when no poll   *)
(* reported 'completed' or 'failed' (and none raised) before elapsed       *)
(* reached max_wait.                                                       *)
(***************************************************************************)
C28_PollingTerminates ==
    /\ [](/\ Len(reports) <= (max_wait + 9) \div 10
          /\ elapsed = 10 * (Len(reports) + IF vpc = "poll" THEN 1 ELSE 0)
          /\ \A k \in DOMAIN reports :
                reports[k] \in {"completed", "failed", "http error",
                                "network error"}
                   => /\ k = Len(reports)
                      /\ vpc \in {"returned", "raised"}
          /\ vpc = "returned"
                <=> reports # <<>> /\ reports[Len(reports)] = "completed"
          /\ vpc = "returned"
                => outcome.kind = "return" /\ outcome.value.status = "done"
          /\ reports # <<>> /\ reports[Len(reports)] = "failed"
                => vpc = "raised" /\ outcome = RaisesError("RuntimeError")
          /\ outcome = RaisesError("TimeoutError")
                => /\ vpc = "raised"
                   /\ elapsed >= max_wait
                   /\ \A k \in DOMAIN reports :
                         reports[k] \in {"processing", "<absent>"}
          /\ /\ vpc \in {"returned", "raised"}
             /\ reports # <<>>
             /\ reports[Len(reports)] \in {"processing", "<absent>"}
             => outcome = RaisesError("TimeoutError")
          /\ vpc = "sleep" => elapsed < max_wait
          /\ vpc \in {"sleep", "poll"} => outcome = NoOutcome)
    /\ <>(vpc \in {"returned", "raised"})

C28_Witness ==
    /\ vpc = "raised"
    /\ outcome = RaisesError("TimeoutError")
    /\ max_wait = 25
    /\ Len(reports) = 3
    /\ elapsed = 30

====
